---- MODULE Spec2Model ----
(***************************************************************************)
(* Model of rustyscript's module loader (src/src/module_loader.rs):        *)
(* RustyLoader::resolve / RustyLoader::load, the filesystem whitelist and  *)
(* the pluggable module cache.                                             *)
(*                                                                         *)
(* Strings are sequences of tokens: "file:///app/main.js" is               *)
(*   <<"file:", "//", "/", "app", "/", "main", ".js">>.                    *)
(* A ModuleSpecifier (Url) is its serialization, as in the url crate.      *)
(***************************************************************************)
EXTENDS Integers, Sequences, FiniteSets, TLC

(***************************************************************************)
(* Bounds                                                                  *)
(***************************************************************************)
\* number of calls the engine and the host make in a run
MaxOps == 3
\* number of load futures that may be in flight at once
MaxFutures == 2

(***************************************************************************)
(* Strings and URLs                                                        *)
(***************************************************************************)
SchemeTokens == {"file:", "http:", "https:", "ftp:", "ext:", "EXT:"}

\* the scheme of a scheme token: the URL parser lower-cases it
SchemeName(tok) ==
    CASE tok = "file:"  -> "file"
      [] tok = "http:"  -> "http"
      [] tok = "https:" -> "https"
      [] tok = "ftp:"   -> "ftp"
      [] tok = "ext:"   -> "ext"
      [] tok = "EXT:"   -> "ext"

\* the serialization of a scheme, with its colon
SchemeToken(scheme) ==
    CASE scheme = "file"  -> "file:"
      [] scheme = "http"  -> "http:"
      [] scheme = "https" -> "https:"
      [] scheme = "ftp"   -> "ftp:"
      [] scheme = "ext"   -> "ext:"

\* the schemes the URL standard calls special: always hierarchical
IsSpecial(scheme) == scheme \in {"file", "http", "https", "ftp"}

Ok(u) == [ok |-> TRUE, url |-> u, err |-> "none"]
Err(e) == [ok |-> FALSE, url |-> <<>>, err |-> e]

\* str::starts_with for a one-token and for a two-token prefix
StartsWith1(s, a) == Len(s) >= 1 /\ s[1] = a
StartsWith2(s, a, b) == Len(s) >= 2 /\ s[1] = a /\ s[2] = b

\* index of the first "/" of toks, Len(toks) + 1 when there is none
RECURSIVE FirstSlash(_, _)
FirstSlash(toks, i) ==
    IF i > Len(toks) THEN i
    ELSE IF toks[i] = "/" THEN i
    ELSE FirstSlash(toks, i + 1)

\* the segments of a path "/a/b.js": << <<"a">>, <<"b", ".js">> >>
RECURSIVE Segments(_)
Segments(toks) ==
    IF toks = <<>> THEN <<>>
    ELSE LET rest == Tail(toks)
             n == FirstSlash(rest, 1)
         IN  <<SubSeq(rest, 1, n - 1)>> \o Segments(SubSeq(rest, n, Len(rest)))

\* removal of "." and ".." segments, as the URL parser's path state does
RECURSIVE RemoveDots(_, _)
RemoveDots(segs, out) ==
    IF segs = <<>> THEN out
    ELSE LET s == Head(segs)
             final == Len(segs) = 1
             popped == IF out = <<>> THEN out ELSE SubSeq(out, 1, Len(out) - 1)
         IN  IF s = <<".">>
             THEN RemoveDots(Tail(segs), IF final THEN Append(out, <<>>) ELSE out)
             ELSE IF s = <<"..">>
             THEN RemoveDots(Tail(segs), IF final THEN Append(popped, <<>>) ELSE popped)
             ELSE RemoveDots(Tail(segs), Append(out, s))

\* the serialization of a list of segments
RECURSIVE PathTokens(_)
PathTokens(segs) ==
    IF segs = <<>> THEN <<>>
    ELSE <<"/">> \o Head(segs) \o PathTokens(Tail(segs))

\* a hierarchical path, normalized; a special scheme's empty path is "/"
NormalPath(toks, special) ==
    LET p == PathTokens(RemoveDots(Segments(toks), <<>>))
    IN  IF p = <<>> /\ special THEN <<"/">> ELSE p

\* Url::scheme
Scheme(url) == SchemeName(Head(url))

\* Url::cannot_be_a_base: an opaque path, "ext:core/a.js"
CannotBeABase(url) ==
    /\ ~IsSpecial(Scheme(url))
    /\ ~StartsWith1(Tail(url), "//")
    /\ ~StartsWith1(Tail(url), "/")

\* the tokens of url up to its path: scheme and authority
Authority(url) ==
    IF StartsWith1(Tail(url), "//")
    THEN IF Len(url) >= 3 /\ url[3] # "/" THEN SubSeq(url, 1, 3) ELSE SubSeq(url, 1, 2)
    ELSE SubSeq(url, 1, 1)

\* Url::host_str, "" when the URL has no host
Host(url) == IF Len(Authority(url)) = 3 THEN url[3] ELSE ""

\* Url::path
Path(url) == SubSeq(url, Len(Authority(url)) + 1, Len(url))

\* Url::parse: the serialization of the parsed URL, or the parse error
UrlParse(s) ==
    IF s = <<>> \/ Head(s) \notin SchemeTokens THEN Err("RelativeUrlWithoutBase")
    ELSE
    LET scheme == SchemeName(Head(s))
        rest == Tail(s)
        slashes == StartsWith1(rest, "//")
        after == IF slashes THEN Tail(rest) ELSE rest
        hasHost == after # <<>> /\ Head(after) # "/"
    IN  IF scheme = "file"
        THEN IF slashes /\ hasHost
             THEN Ok(<<"file:", "//", Head(after)>> \o NormalPath(Tail(after), TRUE))
             ELSE Ok(<<"file:", "//">>
                     \o NormalPath(IF StartsWith1(after, "/") THEN after
                                   ELSE <<"/">> \o after, TRUE))
        ELSE IF IsSpecial(scheme)
        THEN LET a == IF StartsWith1(after, "/") THEN Tail(after) ELSE after
             IN  IF a = <<>> THEN Err("EmptyHost")
                 ELSE Ok(<<SchemeToken(scheme), "//", Head(a)>>
                         \o NormalPath(Tail(a), TRUE))
        ELSE IF slashes
        THEN IF hasHost
             THEN Ok(<<SchemeToken(scheme), "//", Head(after)>>
                     \o NormalPath(Tail(after), FALSE))
             ELSE Ok(<<SchemeToken(scheme), "//">> \o NormalPath(after, FALSE))
        ELSE IF StartsWith1(rest, "/")
        THEN Ok(<<SchemeToken(scheme)>> \o NormalPath(rest, FALSE))
        ELSE Ok(<<SchemeToken(scheme)>> \o rest)

\* Url::join of a relative reference (one without a scheme) onto base
Join(base, s) ==
    IF CannotBeABase(base) THEN Err("RelativeUrlWithCannotBeABaseBase")
    ELSE IF StartsWith1(s, "//") THEN UrlParse(<<Head(base)>> \o s)
    ELSE LET special == IsSpecial(Scheme(base))
             dir == LET segs == Segments(Path(base))
                    IN  IF segs = <<>> THEN <<>>
                        ELSE PathTokens(SubSeq(segs, 1, Len(segs) - 1))
         IN  IF StartsWith1(s, "/")
             THEN Ok(Authority(base) \o NormalPath(s, special))
             ELSE Ok(Authority(base) \o NormalPath(dir \o <<"/">> \o s, special))

\* deno_core::resolve_import
resolve_import(specifier, base) ==
    LET parsed == UrlParse(specifier)
    IN  IF parsed.ok THEN parsed
        ELSE IF parsed.err = "RelativeUrlWithoutBase"
        THEN IF ~(\/ StartsWith1(specifier, "/")
                  \/ StartsWith1(specifier, "//")
                  \/ StartsWith2(specifier, ".", "/")
                  \/ StartsWith2(specifier, "..", "/"))
             THEN Err("ImportPrefixMissing")
             ELSE LET b == UrlParse(base)
                  IN  IF ~b.ok THEN Err("InvalidBaseUrl")
                      ELSE LET j == Join(b.url, specifier)
                           IN  IF j.ok THEN j ELSE Err("InvalidUrl")
        ELSE Err("InvalidUrl")


(***************************************************************************)
(* Inputs                                                                  *)
(***************************************************************************)
\* the referrer deno_core passes for a host-initiated (root) load
RootReferrer == <<".">>

MainJs     == <<"file:", "//", "/", "app", "/", "main", ".js">>
LibJs      == <<"file:", "//", "/", "app", "/", "lib", ".js">>
DataJson   == <<"file:", "//", "/", "app", "/", "data", ".json">>
WebMod     == <<"http:", "//", "example", "/", "mod", ".js">>
WebsMod    == <<"https:", "//", "example", "/", "mod", ".js">>
FtpMod     == <<"ftp:", "//", "example", "/", "mod", ".js">>
ExtOpaque  == <<"ext:", "core", "/", "a", ".js">>
ExtBase    == <<"ext:", "//", "core", "/", "a", ".js">>
RelLib     == <<".", "/", "lib", ".js">>
Bare       == <<"lib", ".js">>

\* the specifiers import statements and the host name
Specifiers ==
    {MainJs, LibJs, WebMod, WebsMod, FtpMod, ExtOpaque, RelLib, Bare}

\* the referrers the engine passes to resolve
Referrers == {RootReferrer, MainJs, ExtBase}

\* the locators the engine may pass to load, whatever resolve said of them
LoadTargets == {MainJs, LibJs, DataJson, WebMod, ExtOpaque}

\* locators the host stores in the cache it shares with the loader
CacheTargets == {MainJs, WebMod}

\* deno_core::resolve_import on the inputs above, evaluated once
Normalized == [s \in Specifiers, r \in Referrers |-> resolve_import(s, r)]

\* locators the host whitelists through the public whitelist_add
HostWhitelists == {LibJs}

\* what the Fetcher finds: source text, or nothing
Contents == {"ts", "bad"}
IoError == "io error"

ModuleTypes == {"JavaScript", "Json"}

(***************************************************************************)
(* State                                                                   *)
(***************************************************************************)
VARIABLES
    url_import,      \* cargo feature url_import (fixed at build)
    fs_import,       \* cargo feature fs_import (fixed at build)
    cache_provider,  \* RustyLoader.cache_provider: "None" or "Some"
    cache,           \* DefaultModuleCacheProvider.0: locator -> ModuleSource
    fs_whlist,       \* RustyLoader.fs_whlist: the set inside the Mutex
    poisoned,        \* whether the Mutex is poisoned
    futures,         \* the load futures the engine holds, by slot
    last,            \* the outcome of the last call or completed future
    rooted,          \* history: locators a root-referrer resolve normalized to
    host_added,      \* history: locators the host passed to whitelist_add
    resolved,        \* history: locators resolve returned Ok
    engine_ok,       \* history: every load so far was of a resolved locator
    fs_reads,        \* history: locators read through std::fs::read_to_string
    net_gets,        \* history: locators requested through reqwest::get
    written,         \* history: the record of the latest set, by locator
    nops             \* number of calls made so far

vars == <<url_import, fs_import, cache_provider, cache, fs_whlist, poisoned, futures,
          last, rooted, host_added, resolved, engine_ok, fs_reads, net_gets,
          written, nops>>

config == <<url_import, fs_import, cache_provider>>
history == <<rooted, host_added, resolved, engine_ok, fs_reads, net_gets, written>>

Slots == 1 .. MaxFutures
\* a slot's future: where it stands, which load path it runs, its locator,
\* and the guards (whitelist lock, cache borrow) it holds while it waits
Idle == [pc |-> "idle", kind |-> "none", url |-> <<>>, holds |-> {}]

\* the allocation a record's payload lives in: a buffer newly allocated for
\* the caller, or the buffer the host handed to set for a locator
Fresh == <<"fresh">>
HostBuffer(specifier) == specifier

NoSource == [module_type |-> "none", code |-> "none", specifier |-> <<>>, buf |-> <<>>]

\* the record of a call: what was asked, what came back, what it touched
Outcome(op, specifier, referrer, url, ok, err) ==
    [op |-> op, specifier |-> specifier, referrer |-> referrer, url |-> url,
     ok |-> ok, err |-> err, source |-> NoSource,
     hit |-> FALSE, fetched |-> FALSE, transpiled |-> FALSE]

(***************************************************************************)
(* Whitelist                                                               *)
(***************************************************************************)
\* whitelist_add that drops the insertion
whitelist_add_dropped(whitelist, poison, specifier) == whitelist

\* whitelist_add that keeps only the newest entry
whitelist_add_replace(whitelist, poison, specifier) ==
    IF ~poison THEN {specifier} ELSE whitelist

\* RustyLoader::whitelist_add: the set after the call
whitelist_add(whitelist, poison, specifier) ==
    IF ~poison THEN whitelist \cup {specifier} ELSE whitelist

\* whitelist_has that never finds an entry
whitelist_has_absent(whitelist, poison, specifier) == FALSE

\* whitelist_has that finds every entry
whitelist_has_any(whitelist, poison, specifier) == TRUE

\* whitelist_has that reads through a poisoned lock
whitelist_has_through(whitelist, poison, specifier) == specifier \in whitelist

\* RustyLoader::whitelist_has
whitelist_has(whitelist, poison, specifier) ==
    IF ~poison THEN specifier \in whitelist ELSE FALSE

(***************************************************************************)
(* resolve                                                                 *)
(***************************************************************************)
\* a root test that takes every referrer for the host
IsRoot_any(referrer) == TRUE

\* referrer == "."
IsRoot(referrer) == referrer = RootReferrer

\* a permission match that lets whitelisted web locators through
Permission_web_whitelisted(url, specifier, web, fs, has) ==
    IF Scheme(url) \in {"https", "http"}
    THEN IF ~web /\ ~has THEN "web imports are not allowed here" ELSE "ok"
    ELSE IF Scheme(url) = "file"
    THEN IF ~fs /\ ~has THEN "requested module is not loaded" ELSE "ok"
    ELSE IF StartsWith1(specifier, "ext:") THEN "ok"
    ELSE "unrecognized schema for module import"

\* a permission match whose last arm allows instead of rejecting
Permission_open(url, specifier, web, fs, has) ==
    IF Scheme(url) \in {"https", "http"}
    THEN IF ~web THEN "web imports are not allowed here" ELSE "ok"
    ELSE IF Scheme(url) = "file"
    THEN IF ~fs /\ ~has THEN "requested module is not loaded" ELSE "ok"
    ELSE "ok"

\* the permission match of resolve: "ok" or the error's message
Permission(url, specifier, web, fs, has) ==
    IF Scheme(url) \in {"https", "http"}
    THEN IF ~web THEN "web imports are not allowed here" ELSE "ok"
    ELSE IF Scheme(url) = "file"
    THEN IF ~fs /\ ~has THEN "requested module is not loaded" ELSE "ok"
    ELSE IF StartsWith1(specifier, "ext:") THEN "ok"
    ELSE "unrecognized schema for module import"

\* the whitelist after the root-load step of resolve
RootAdd(whitelist, poison, referrer, norm) ==
    IF norm.ok /\ IsRoot(referrer)
    THEN whitelist_add(whitelist, poison, norm.url)
    ELSE whitelist

\* resolve's result from the permission match's verdict
Verdict(p, norm) == IF p = "ok" THEN norm ELSE Err(p)

\* the result of resolve, given the normalized specifier and the whitelist
\* after the root-load step
ResolveResult(specifier, norm, whitelist, poison, web, fs) ==
    IF ~norm.ok THEN norm
    ELSE Verdict(Permission(norm.url, specifier, web, fs,
                            whitelist_has(whitelist, poison, norm.url)), norm)

\* the type of error value a resolve error carries: resolve_import's typed
\* ModuleResolutionError passed on by `?`, or the message-only error anyhow!
\* builds in each of the three rejecting arms
ErrorKind(err) ==
    IF err = "none" THEN "none"
    ELSE IF err \in {"web imports are not allowed here",
                     "requested module is not loaded",
                     "unrecognized schema for module import"}
    THEN "anyhow message"
    ELSE "ModuleResolutionError"

\* what a resolve call leaves behind: its outcome and the history of calls
ResolveRecord(specifier, referrer, norm, res) ==
    /\ last' = Outcome("resolve", specifier, referrer, norm.url, res.ok, res.err)
    /\ rooted' = IF norm.ok /\ referrer = RootReferrer
                 THEN rooted \cup {norm.url} ELSE rooted
    /\ resolved' = IF res.ok THEN resolved \cup {res.url} ELSE resolved

\* a body that runs the permission match against the whitelist as it was
\* before the root-load step
ResolveStep_check_first(specifier, referrer, norm, whitelist) ==
    /\ fs_whlist' = whitelist
    /\ ResolveRecord(specifier, referrer, norm,
                     ResolveResult(specifier, norm, fs_whlist, poisoned,
                                   url_import, fs_import))

\* resolve's body after normalization: the whitelist written, the result decided
ResolveStep(specifier, referrer, norm, whitelist) ==
    /\ fs_whlist' = whitelist
    /\ ResolveRecord(specifier, referrer, norm,
                     ResolveResult(specifier, norm, whitelist, poisoned,
                                   url_import, fs_import))

\* a resolve that probes the filesystem for the locator it normalized
Resolve_probing(specifier, referrer) ==
    /\ nops < MaxOps
    /\ nops' = nops + 1
    /\ ResolveStep(specifier, referrer, Normalized[specifier, referrer],
                   RootAdd(fs_whlist, poisoned, referrer,
                           Normalized[specifier, referrer]))
    /\ fs_reads' = IF Normalized[specifier, referrer].ok
                   THEN fs_reads \cup {Normalized[specifier, referrer].url}
                   ELSE fs_reads
    /\ UNCHANGED <<config, cache, poisoned, futures, host_added, engine_ok,
                   net_gets, written>>

\* RustyLoader::resolve
Resolve(specifier, referrer) ==
    /\ nops < MaxOps
    /\ nops' = nops + 1
    /\ ResolveStep(specifier, referrer, Normalized[specifier, referrer],
                   RootAdd(fs_whlist, poisoned, referrer,
                           Normalized[specifier, referrer]))
    /\ UNCHANGED <<config, cache, poisoned, futures, host_added, engine_ok,
                   fs_reads, net_gets, written>>

\* the host's direct call of whitelist_add
WhitelistAdd(specifier) ==
    /\ nops < MaxOps
    /\ nops' = nops + 1
    /\ fs_whlist' = whitelist_add(fs_whlist, poisoned, specifier)
    /\ last' = Outcome("whitelist_add", specifier, <<>>, <<>>, TRUE, "none")
    /\ host_added' = host_added \cup {specifier}
    /\ UNCHANGED <<config, cache, poisoned, futures, rooted, resolved, engine_ok,
                   fs_reads, net_gets, written>>

\* the host's direct call of whitelist_has
WhitelistHas(specifier) ==
    /\ nops < MaxOps
    /\ nops' = nops + 1
    /\ last' = Outcome("whitelist_has", specifier, <<>>, <<>>,
                       whitelist_has(fs_whlist, poisoned, specifier), "none")
    /\ UNCHANGED <<config, cache, fs_whlist, poisoned, futures, history>>

(***************************************************************************)
(* Cache provider                                                          *)
(***************************************************************************)
None == [some |-> FALSE, value |-> NoSource]
Some(v) == [some |-> TRUE, value |-> v]

\* a clone that shares the stored record's payload buffer
clone_source_shared(specifier, source) ==
    [module_type |-> source.module_type, code |-> source.code,
     specifier |-> specifier, buf |-> source.buf]

\* ModuleCacheProvider::clone_source: s.to_string() and b.to_vec() copy the
\* payload into a new allocation
clone_source(specifier, source) ==
    [module_type |-> source.module_type, code |-> source.code,
     specifier |-> specifier, buf |-> Fresh]

\* a set that evicts every other entry
CacheInsert_evicting(map, specifier, source) == [l \in {specifier} |-> source]

\* DefaultModuleCacheProvider::set: the map after the call
CacheInsert(map, specifier, source) ==
    [l \in DOMAIN map \cup {specifier} |-> IF l = specifier THEN source ELSE map[l]]

\* DefaultModuleCacheProvider::get
CacheLookup(map, specifier) ==
    IF specifier \in DOMAIN map THEN Some(clone_source(specifier, map[specifier]))
    ELSE None

\* a lookup that never finds the stored record
ProviderGet_miss(provider, map, specifier) == None

\* cache_provider.as_ref().map(|p| p.get(&module_specifier)), flattened
ProviderGet(provider, map, specifier) ==
    IF provider = "Some" THEN CacheLookup(map, specifier) ELSE None

(***************************************************************************)
(* Fetchers and transpiler                                                 *)
(***************************************************************************)
\* module_specifier.path().ends_with(".json")
EndsWithJson(url) == LET p == Path(url) IN p # <<>> /\ p[Len(p)] = ".json"

\* a classification that ignores the path's suffix
ModuleTypeOf_script(url) == "JavaScript"

\* the module type both load paths give a locator
ModuleTypeOf(url) == IF EndsWithJson(url) THEN "Json" ELSE "JavaScript"

\* Url::to_file_path succeeds (on unix): a file URL with no remote host
ToFilePathOk(url) == Scheme(url) = "file" /\ Host(url) \in {"", "localhost"}

\* transpiler::transpile: TypeScript becomes JavaScript, a syntax error fails
Transpile(specifier, code) ==
    IF code = "bad" THEN [ok |-> FALSE, code |-> "none"]
    ELSE [ok |-> TRUE, code |-> "js"]

\* the part of a load's outcome the load paths decide
Loaded(ok, err, source, hit, fetched, transpiled) ==
    [ok |-> ok, err |-> err, source |-> source,
     hit |-> hit, fetched |-> fetched, transpiled |-> transpiled]

\* what follows the Fetcher's answer rd in both load paths: transpile and build
Finish(module_specifier, rd) ==
    IF rd = IoError THEN Loaded(FALSE, IoError, NoSource, FALSE, TRUE, FALSE)
    ELSE LET t == Transpile(module_specifier, rd)
         IN  IF ~t.ok
             THEN Loaded(FALSE, "transpile error", NoSource, FALSE, TRUE, TRUE)
             ELSE Loaded(TRUE, "none",
                         [module_type |-> ModuleTypeOf(module_specifier),
                          code |-> t.code, specifier |-> module_specifier,
                          buf |-> Fresh],
                         FALSE, TRUE, TRUE)

\* a file load that asks the whitelist first under the restricted filesystem
load_from_file_guarded(module_specifier, provider, map, rd) ==
    IF ~fs_import /\ ~whitelist_has(fs_whlist, poisoned, module_specifier)
    THEN Loaded(FALSE, "requested module is not loaded", NoSource, FALSE, FALSE, FALSE)
    ELSE IF ProviderGet(provider, map, module_specifier).some
    THEN Loaded(TRUE, "none", ProviderGet(provider, map, module_specifier).value,
                TRUE, FALSE, FALSE)
    ELSE IF ~ToFilePathOk(module_specifier)
    THEN Loaded(FALSE, "is not a file URL", NoSource, FALSE, FALSE, FALSE)
    ELSE Finish(module_specifier, rd)

\* load_from_file, the filesystem answering rd if it is asked
load_from_file(module_specifier, provider, map, rd) ==
    LET got == ProviderGet(provider, map, module_specifier)
    IN  IF got.some THEN Loaded(TRUE, "none", got.value, TRUE, FALSE, FALSE)
        ELSE IF ~ToFilePathOk(module_specifier)
        THEN Loaded(FALSE, "is not a file URL", NoSource, FALSE, FALSE, FALSE)
        ELSE Finish(module_specifier, rd)

\* a load path that stores whatever its run ended with, failures included
CacheAfterLoad_always(provider, map, module_specifier, res) ==
    IF provider = "Some" /\ ~res.hit THEN CacheInsert(map, module_specifier, res.source)
    ELSE map

\* the cache after load_from_file or load_from_url ran to its end with res:
\* neither function calls cache_provider.set
CacheAfterLoad(provider, map, module_specifier, res) == map

\* a lookup whose borrow of the map outlives the call
HeldAtAwait_borrowed(provider) == IF provider = "Some" THEN {"cache"} ELSE {}

\* the guards load_from_url still holds when it suspends on reqwest::get:
\* get's Ref of the map is a local of get and is dropped when get returns
\* the cloned record, and the load paths never take the whitelist's lock
HeldAtAwait(provider) == {}

(***************************************************************************)
(* load                                                                    *)
(***************************************************************************)
\* a scheme match whose web arm is not compiled out
LoadRoute_web_always(scheme, web) ==
    IF scheme \in {"https", "http"} THEN "url"
    ELSE IF scheme = "file" THEN "file"
    ELSE "sync_err"

\* the scheme match of load: which future it returns, or a synchronous error
LoadRoute(scheme, web) ==
    IF web /\ scheme \in {"https", "http"} THEN "url"
    ELSE IF scheme = "file" THEN "file"
    ELSE "sync_err"

\* the outcome of a completed load future
Done(f, res) ==
    [Outcome("load_done", <<>>, <<>>, f.url, res.ok, res.err) EXCEPT
        !.source = res.source, !.hit = res.hit,
        !.fetched = res.fetched, !.transpiled = res.transpiled]

\* RustyLoader::load
Load(module_specifier) ==
    LET route == LoadRoute(Scheme(module_specifier), url_import)
    IN  /\ nops < MaxOps
        /\ nops' = nops + 1
        /\ engine_ok' = (engine_ok /\ module_specifier \in resolved)
        /\ IF route = "sync_err"
           THEN /\ last' = Outcome("load", <<>>, <<>>, module_specifier, FALSE,
                                   "imports are not allowed here")
                /\ UNCHANGED futures
           ELSE /\ \E i \in Slots :
                      /\ futures[i] = Idle
                      /\ \A j \in Slots : j < i => futures[j] # Idle
                      /\ futures' = [futures EXCEPT
                                       ![i] = [pc |-> "start", kind |-> route,
                                               url |-> module_specifier,
                                               holds |-> {}]]
                /\ last' = Outcome("load", <<>>, <<>>, module_specifier, TRUE, "pending")
        /\ UNCHANGED <<config, cache, fs_whlist, poisoned, rooted, host_added,
                       resolved, fs_reads, net_gets, written>>

\* the engine polls a load_from_file future: it runs to completion
PollFile(i) ==
    /\ futures[i].pc = "start"
    /\ futures[i].kind = "file"
    /\ \E rd \in Contents \cup {IoError} :
          LET f == futures[i]
              res == load_from_file(f.url, cache_provider, cache, rd)
          IN  /\ last' = Done(f, res)
              /\ fs_reads' = IF res.fetched THEN fs_reads \cup {f.url} ELSE fs_reads
              /\ cache' = CacheAfterLoad(cache_provider, cache, f.url, res)
    /\ futures' = [futures EXCEPT ![i] = Idle]
    /\ UNCHANGED <<config, fs_whlist, poisoned, rooted, host_added, resolved,
                   engine_ok, net_gets, written, nops>>

\* the engine polls a load_from_url future: a cache hit completes it, a miss
\* sends the request and suspends on reqwest::get
PollUrl(i) ==
    /\ futures[i].pc = "start"
    /\ futures[i].kind = "url"
    /\ LET f == futures[i]
           got == ProviderGet(cache_provider, cache, f.url)
       IN  IF got.some
           THEN /\ last' = Done(f, Loaded(TRUE, "none", got.value, TRUE, FALSE, FALSE))
                /\ futures' = [futures EXCEPT ![i] = Idle]
                /\ UNCHANGED <<net_gets, cache>>
           ELSE /\ net_gets' = net_gets \cup {f.url}
                /\ futures' = [futures EXCEPT
                                 ![i] = [f EXCEPT !.pc = "get",
                                                  !.holds = HeldAtAwait(cache_provider)]]
                /\ UNCHANGED <<last, cache>>
    /\ UNCHANGED <<config, fs_whlist, poisoned, rooted, host_added, resolved,
                   engine_ok, fs_reads, written, nops>>

\* reqwest::get(..).await resumes: the response's head, or a network error
Respond(i) ==
    /\ futures[i].pc = "get"
    /\ \E answered \in BOOLEAN :
          IF answered
          THEN /\ futures' = [futures EXCEPT ![i].pc = "text"]
               /\ UNCHANGED <<last, cache>>
          ELSE /\ futures' = [futures EXCEPT ![i] = Idle]
               /\ last' = Done(futures[i], Finish(futures[i].url, IoError))
               /\ cache' = CacheAfterLoad(cache_provider, cache, futures[i].url,
                                          Finish(futures[i].url, IoError))
    /\ UNCHANGED <<config, fs_whlist, poisoned, history, nops>>

\* response.text().await resumes: the body, or a network error; then the
\* rest of load_from_url runs to completion
Body(i) ==
    /\ futures[i].pc = "text"
    /\ \E rd \in Contents \cup {IoError} :
          /\ last' = Done(futures[i], Finish(futures[i].url, rd))
          /\ cache' = CacheAfterLoad(cache_provider, cache, futures[i].url,
                                     Finish(futures[i].url, rd))
    /\ futures' = [futures EXCEPT ![i] = Idle]
    /\ UNCHANGED <<config, fs_whlist, poisoned, history, nops>>

\* the engine abandons a load future (cancellation, timeout)
Drop(i) ==
    /\ futures[i] # Idle
    /\ futures' = [futures EXCEPT ![i] = Idle]
    /\ last' = Outcome("drop", <<>>, <<>>, futures[i].url, FALSE, "cancelled")
    /\ UNCHANGED <<config, cache, fs_whlist, poisoned, history, nops>>

\* the host stores a record in the cache it handed to the loader
CacheSet(specifier, module_type, code) ==
    /\ cache_provider = "Some"
    /\ nops < MaxOps
    /\ nops' = nops + 1
    /\ cache' = CacheInsert(cache, specifier,
                            [module_type |-> module_type, code |-> code,
                             specifier |-> specifier,
                             buf |-> HostBuffer(specifier)])
    /\ last' = Outcome("cache_set", <<>>, <<>>, specifier, TRUE, "none")
    /\ written' = [l \in DOMAIN written \cup {specifier} |->
                     IF l = specifier
                     THEN [module_type |-> module_type, code |-> code,
                           specifier |-> specifier]
                     ELSE written[l]]
    /\ UNCHANGED <<config, fs_whlist, poisoned, futures, rooted, host_added,
                   resolved, engine_ok, fs_reads, net_gets>>

\* the host reads the cache it handed to the loader
CacheGet(specifier) ==
    /\ cache_provider = "Some"
    /\ nops < MaxOps
    /\ nops' = nops + 1
    /\ LET got == CacheLookup(cache, specifier)
       IN  last' = [Outcome("cache_get", <<>>, <<>>, specifier, got.some, "none")
                      EXCEPT !.source = got.value, !.hit = got.some]
    /\ UNCHANGED <<config, cache, fs_whlist, poisoned, futures, history>>

(***************************************************************************)
(* Specification                                                           *)
(***************************************************************************)
\* RustyLoader::new, under each build configuration
Init ==
    /\ url_import \in BOOLEAN
    /\ fs_import \in BOOLEAN
    /\ cache_provider \in {"None", "Some"}
    /\ cache = <<>>
    /\ fs_whlist = {}
    /\ poisoned = FALSE
    /\ futures = [i \in Slots |-> Idle]
    /\ last = Outcome("none", <<>>, <<>>, <<>>, TRUE, "none")
    /\ rooted = {}
    /\ host_added = {}
    /\ resolved = {}
    /\ engine_ok = TRUE
    /\ fs_reads = {}
    /\ net_gets = {}
    /\ written = <<>>
    /\ nops = 0

Next ==
    \/ \E s \in Specifiers, r \in Referrers : Resolve(s, r)
    \/ \E u \in LoadTargets : Load(u)
    \/ \E i \in Slots : PollFile(i)
    \/ \E i \in Slots : PollUrl(i)
    \/ \E i \in Slots : Respond(i)
    \/ \E i \in Slots : Body(i)
    \/ \E i \in Slots : Drop(i)
    \/ \E u \in HostWhitelists : WhitelistAdd(u)
    \/ \E u \in HostWhitelists : WhitelistHas(u)
    \/ \E u \in CacheTargets : CacheSet(u, "JavaScript", "js")
    \/ \E u \in CacheTargets : CacheGet(u)

Spec == Init /\ [][Next]_vars

\* a panic unwinds while whitelist_add holds the guard: from then on
\* fs_whlist.lock() returns Err(PoisonError) to every caller
Poison ==
    /\ ~poisoned
    /\ poisoned' = TRUE
    /\ last' = Outcome("poison", <<>>, <<>>, <<>>, FALSE, "panicked")
    /\ UNCHANGED <<config, cache, fs_whlist, futures, history, nops>>

\* the calls that take the whitelist's lock, and the poisoning of it
PoisonNext ==
    \/ \E s \in Specifiers, r \in Referrers : Resolve(s, r)
    \/ \E u \in HostWhitelists : WhitelistAdd(u)
    \/ \E u \in HostWhitelists \cup {MainJs} : WhitelistHas(u)
    \/ Poison

PoisonSpec == Init /\ [][PoisonNext]_vars

\* the caller takes the payload out of the record it was returned: whatever
\* shares that buffer loses its payload with it
Consume ==
    /\ last.source.buf # <<>>
    /\ last.source.code # "consumed"
    /\ last' = [last EXCEPT !.source.code = "consumed"]
    /\ cache' = [l \in DOMAIN cache |->
                   IF cache[l].buf = last.source.buf
                   THEN [cache[l] EXCEPT !.code = "consumed"]
                   ELSE cache[l]]
    /\ UNCHANGED <<config, fs_whlist, poisoned, futures, history, nops>>

\* the calls that return or store module records, and the caller's use of
\* a returned record
CopyNext ==
    \/ \E u \in LoadTargets : Load(u)
    \/ \E i \in Slots : PollFile(i)
    \/ \E i \in Slots : PollUrl(i)
    \/ \E u \in CacheTargets : CacheSet(u, "JavaScript", "js")
    \/ \E u \in CacheTargets : CacheGet(u)
    \/ Consume

CopySpec == Init /\ [][CopyNext]_vars

\* the payloads the host stores
CachePayloads == {"js", "v2"}

\* the host's calls of the default cache provider, with every kind and payload
CacheNext ==
    \/ \E u \in CacheTargets, t \in ModuleTypes, c \in CachePayloads : CacheSet(u, t, c)
    \/ \E u \in CacheTargets : CacheGet(u)

CacheSpec == Init /\ [][CacheNext]_vars

(***************************************************************************)
(* Properties                                                              *)
(***************************************************************************)
PolicyDenied == {"web imports are not allowed here", "requested module is not loaded"}
UnrecognizedScheme == "unrecognized schema for module import"
SchemeNotAllowed == "imports are not allowed here"

\* two records carry the same module: kind, payload and locator
SamePayload(a, b) ==
    /\ a.module_type = b.module_type
    /\ a.code = b.code
    /\ a.specifier = b.specifier

\* the last call was a resolve whose specifier normalized to a locator
ResolvedTo(o) == o.op = "resolve" /\ o.url # <<>>

\* C1: after resolve with the root referrer "." of a specifier that
\* normalizes to a locator L, L is in the whitelist, whatever L's scheme and
\* whether resolve returned L or an error.
C1_RootWhitelisted ==
    (ResolvedTo(last) /\ last.referrer = RootReferrer) => last.url \in fs_whlist

\* a root resolve that ended in an unrecognized-scheme error whitelisted its locator
C1_Witness ==
    /\ ResolvedTo(last)
    /\ last.referrer = RootReferrer
    /\ ~last.ok
    /\ last.err = UnrecognizedScheme
    /\ last.url \in fs_whlist

\* C2: without fs_import, a resolve from a non-root referrer to a file:
\* locator that is not whitelisted is denied, and every resolve to a file:
\* locator that a root-referrer resolve named before succeeds.
C2_RestrictedFilesystem ==
    (ResolvedTo(last) /\ ~fs_import /\ Scheme(last.url) = "file") =>
        /\ (last.referrer # RootReferrer /\ last.url \notin fs_whlist) =>
               (~last.ok /\ last.err = "requested module is not loaded")
        /\ last.url \in rooted => last.ok

\* an import from main.js of ./lib.js succeeds once lib.js was root-loaded
C2_Witness ==
    /\ ResolvedTo(last)
    /\ ~fs_import
    /\ last.specifier = RelLib
    /\ last.referrer = MainJs
    /\ last.url = LibJs
    /\ LibJs \in rooted
    /\ last.ok

\* C3: the whitelist holds only locators the host named (by a root-referrer
\* resolve or by whitelist_add), so without fs_import an import of a file the
\* host never named is denied, however often it is tried and although its
\* referrer is whitelisted.
C3_NoSelfAuthorization ==
    /\ fs_whlist \subseteq rooted \cup host_added
    /\ (/\ ResolvedTo(last)
        /\ ~fs_import
        /\ last.referrer # RootReferrer
        /\ Scheme(last.url) = "file"
        /\ last.url \notin rooted \cup host_added) =>
           (~last.ok /\ last.err \in PolicyDenied)

\* main.js is whitelisted as a root, its import of lib.js is denied three
\* calls into the run
C3_Witness ==
    /\ ~fs_import
    /\ ~url_import
    /\ MainJs \in rooted
    /\ MainJs \in fs_whlist
    /\ last.op = "resolve"
    /\ last.referrer = MainJs
    /\ last.url = LibJs
    /\ ~last.ok
    /\ last.err = "requested module is not loaded"
    /\ nops = MaxOps

\* C4: without fs_import, while the engine loads only locators resolve
\* returned, every file read through the filesystem Fetcher is of a
\* whitelisted locator that the host named.
C4_ReadsOnlyWhitelisted ==
    (~fs_import /\ engine_ok) =>
        \A u \in fs_reads : u \in fs_whlist /\ u \in rooted \cup host_added

\* a resolved root module was read from the filesystem
C4_Witness ==
    /\ ~fs_import
    /\ engine_ok
    /\ last.op = "load_done"
    /\ last.fetched
    /\ last.url \in fs_reads
    /\ last.url \in resolved

\* C5: every locator resolve returned is accepted by load's scheme match.
C5_ResolvedLocatorLoads ==
    (last.op = "load" /\ last.url \in resolved) => last.err # SchemeNotAllowed

\* C6: resolve succeeds whenever the resolved locator has the ext: scheme.
C6_ExtAlwaysResolves ==
    (ResolvedTo(last) /\ Scheme(last.url) = "ext") => last.ok

\* C7: a resolve to an http or https locator is denied when url_import is
\* off, for every referrer and whether or not the locator is whitelisted, and
\* succeeds when url_import is on.
C7_WebGate ==
    (ResolvedTo(last) /\ Scheme(last.url) \in {"http", "https"}) =>
        IF url_import THEN last.ok
        ELSE ~last.ok /\ last.err = "web imports are not allowed here"

\* a root resolve of an http locator is denied although it was whitelisted
C7_Witness ==
    /\ ResolvedTo(last)
    /\ ~url_import
    /\ Scheme(last.url) = "http"
    /\ last.referrer = RootReferrer
    /\ last.url \in fs_whlist
    /\ ~last.ok

\* the schemes load does not route to a Fetcher under this build
Unrouted(scheme) == scheme # "file" /\ ~(url_import /\ scheme \in {"http", "https"})

\* C8: load rejects synchronously exactly the locators whose scheme is neither
\* file nor, with url_import, http/https; a future exists and a Fetcher is
\* invoked only for the scheme of its path, so without url_import the network
\* Fetcher is never invoked.
C8_LoadSchemeGate ==
    /\ last.op = "load" =>
          /\ Unrouted(Scheme(last.url)) <=> ~last.ok
          /\ ~last.ok => /\ last.err = SchemeNotAllowed
                          /\ ~last.hit /\ ~last.fetched /\ ~last.transpiled
                          /\ \A i \in Slots : futures[i].url # last.url
                                                \/ futures[i].pc # "start"
    /\ \A u \in fs_reads : Scheme(u) = "file"
    /\ \A u \in net_gets : url_import /\ Scheme(u) \in {"http", "https"}
    /\ \A i \in Slots :
          futures[i] # Idle =>
              /\ ~Unrouted(Scheme(futures[i].url))
              /\ futures[i].kind = "file" <=> Scheme(futures[i].url) = "file"

\* without url_import a load of an http locator is rejected synchronously
C8_Witness ==
    /\ ~url_import
    /\ last.op = "load"
    /\ Scheme(last.url) = "http"
    /\ ~last.ok
    /\ net_gets = {}

\* C9: a resolve to a locator whose scheme is none of file, http, https and
\* ext fails with the unrecognized-scheme error.
C9_UnrecognizedScheme ==
    (ResolvedTo(last) /\ Scheme(last.url) \notin {"file", "http", "https", "ext"}) =>
        (~last.ok /\ last.err = UnrecognizedScheme)

\* resolve("ftp://example/mod.js", ".") failed with the unrecognized-scheme error
C9_Witness ==
    /\ last.op = "resolve"
    /\ last.specifier = FtpMod
    /\ last.referrer = RootReferrer
    /\ last.url = FtpMod
    /\ ~last.ok
    /\ last.err = UnrecognizedScheme

\* C10: with a cache provider, a load that missed the cache and succeeded
\* leaves the cache holding the record it returned.
C10_LoadPopulatesCache ==
    (/\ cache_provider = "Some"
     /\ last.op = "load_done"
     /\ last.ok
     /\ ~last.hit) =>
        (last.url \in DOMAIN cache /\ SamePayload(cache[last.url], last.source))

\* the cache holds a record for the locator of the future in slot i
Held(i) == cache_provider = "Some" /\ futures[i].url \in DOMAIN cache

\* this step is the engine's first poll of the load future in slot i
Polled(i) ==
    /\ futures[i].pc = "start"
    /\ futures'[i] # futures[i]
    /\ ~(futures'[i] = Idle /\ last'.op = "drop")

\* this step completed the future in slot i with a copy of the cached record
\* and called neither the Fetcher nor the Transpiler
ServedFromCache(i) ==
    /\ futures'[i] = Idle
    /\ last'.op = "load_done"
    /\ last'.url = futures[i].url
    /\ last'.ok /\ last'.hit /\ ~last'.fetched /\ ~last'.transpiled
    /\ SamePayload(last'.source, cache[futures[i].url])
    /\ fs_reads' = fs_reads
    /\ net_gets' = net_gets

\* C11: when the cache holds a record for L as load(L) runs its lookup, the
\* load completes with a copy of that record and calls neither the Fetcher
\* nor the Transpiler; the Fetcher is called only by a load that found no
\* cache or no record for its locator.
C11_CacheHitSkipsFetch ==
    [][/\ \A i \in Slots : (Polled(i) /\ Held(i)) => ServedFromCache(i)
       /\ (fs_reads' # fs_reads \/ net_gets' # net_gets) =>
              \E i \in Slots :
                  /\ Polled(i)
                  /\ ~Held(i)
                  /\ fs_reads' \cup net_gets' =
                        fs_reads \cup net_gets \cup {futures[i].url}]_vars

\* load of a locator the host had cached completed as a hit, nothing fetched
C11_Witness ==
    /\ last.op = "load_done"
    /\ last.hit
    /\ last.url \in DOMAIN cache
    /\ SamePayload(last.source, cache[last.url])
    /\ fs_reads = {}
    /\ net_gets = {}

\* the last call was a load that missed the cache and ran to its end
MissedLoad(o) == o.op = "load_done" /\ ~o.hit

\* the locator's last token is the suffix ".json"
JsonSuffix(url) == url # <<>> /\ url[Len(url)] = ".json"

\* C13: a load that missed the cache, of a locator whose path ends in
\* ".json", never calls the Transpiler.
C13_JsonBypassesTranspiler ==
    (MissedLoad(last) /\ JsonSuffix(last.url)) => ~last.transpiled

\* C14: a load that missed the cache and succeeded returns a record whose
\* module type is Json exactly when the locator's path ends in ".json" and
\* JavaScript otherwise, and whose specifier is the locator loaded.
C14_KindFollowsSuffix ==
    (MissedLoad(last) /\ last.ok) =>
        /\ last.source.module_type \in {"Json", "JavaScript"}
        /\ (last.source.module_type = "Json") <=> JsonSuffix(last.url)
        /\ last.source.specifier = last.url

\* load(file:///app/data.json) missed the cache and returned a Json record
C14_Witness ==
    /\ MissedLoad(last)
    /\ last.ok
    /\ last.url = DataJson
    /\ last.source.module_type = "Json"
    /\ last.source.specifier = DataJson
    /\ DataJson \in fs_reads

\* every stored record is a whole module record filed under its own locator
WellFormedCache ==
    \A l \in DOMAIN cache :
        /\ cache[l].module_type \in ModuleTypes
        /\ cache[l].code # "none"
        /\ cache[l].specifier = l

\* C15: the cache gains an entry only from the host's set or from a load
\* that completed successfully; a load that is denied, fails in the Fetcher
\* or the Transpiler, or is dropped while suspended leaves the cache as it
\* was, so the cache never holds a negative or partial entry.
C15_FailedLoadLeavesCache ==
    /\ []WellFormedCache
    /\ [][cache' # cache =>
             \/ last'.op = "cache_set"
             \/ /\ last'.op = "load_done"
                /\ last'.ok
                /\ ~last'.hit
                /\ cache' = CacheInsert(cache, last'.url, last'.source)]_vars

\* a load failed after the Fetcher was called and the cache has no entry for it
C15_Witness ==
    /\ cache_provider = "Some"
    /\ MissedLoad(last)
    /\ ~last.ok
    /\ last.fetched
    /\ last.url \notin DOMAIN cache

\* C16: whitelist membership is monotonic: no step of resolve, load,
\* whitelist_add or whitelist_has, nor of a load future, removes an entry.
C16_WhitelistMonotonic == [][fs_whlist \subseteq fs_whlist']_vars

\* a root resolve and a host whitelist_add each inserted a locator, and a
\* later whitelist_has still found its locator
C16_Witness ==
    /\ MainJs \in rooted
    /\ LibJs \in host_added
    /\ {MainJs, LibJs} \subseteq fs_whlist
    /\ last.op = "whitelist_has"
    /\ last.ok

\* C17: once the whitelist's lock is poisoned, whitelist_has returns false
\* for every locator, also for one inserted before the poisoning, and a
\* resolve that depends on it fails with the policy denial; both calls
\* return.
C17_PoisonedHasIsFalse ==
    poisoned =>
        /\ last.op = "whitelist_has" => ~last.ok
        /\ (ResolvedTo(last) /\ Scheme(last.url) = "file" /\ ~fs_import) =>
               (~last.ok /\ last.err = "requested module is not loaded")

\* whitelist_has returned false for a locator inserted before the poisoning
C17_Witness ==
    /\ poisoned
    /\ last.op = "whitelist_has"
    /\ last.specifier \in fs_whlist
    /\ ~last.ok

\* this step is a resolve call with the specifier and referrer of the
\* resolve call just before it
ResolvedAgain ==
    /\ last.op = "resolve"
    /\ nops' = nops + 1
    /\ last'.op = "resolve"
    /\ last'.specifier = last.specifier
    /\ last'.referrer = last.referrer

\* C18: resolve called twice in succession with the same specifier and
\* referrer returns the same locator or the same error both times, and the
\* second call leaves the whitelist unchanged.
C18_ResolveIdempotent ==
    [][ResolvedAgain => (last' = last /\ fs_whlist' = fs_whlist)]_vars

\* after two calls, a root resolve of a file locator under the restricted
\* filesystem returned the locator, and the whitelist holds just that locator
C18_Witness ==
    /\ nops = 2
    /\ ~fs_import
    /\ ResolvedTo(last)
    /\ last.referrer = RootReferrer
    /\ Scheme(last.url) = "file"
    /\ last.ok
    /\ fs_whlist = {last.url}
    /\ resolved = {last.url}

\* why a resolve failed: the specifier did not normalize, the policy denied
\* a web or file locator, or the scheme is not a known one
Cause(url) ==
    IF url = <<>> THEN "malformed"
    ELSE IF Scheme(url) \in {"https", "http", "file"} THEN "policy denial"
    ELSE "unrecognized scheme"

\* the result resolve(s, r) would return in this state
ResolveNow(s, r) ==
    ResolveResult(s, Normalized[s, r],
                  RootAdd(fs_whlist, poisoned, r, Normalized[s, r]),
                  poisoned, url_import, fs_import)

\* C19: two failed resolve calls carry the same error kind exactly when they
\* failed for the same cause among malformed specifier, policy denial and
\* unrecognized scheme; both policy denials carry the one PolicyDenied kind.
C19_ErrorKindsDistinct ==
    (last.op = "resolve" /\ ~last.ok) =>
        \A s \in Specifiers, r \in Referrers :
            ~ResolveNow(s, r).ok =>
                ((ErrorKind(ResolveNow(s, r).err) = ErrorKind(last.err))
                    <=> (Cause(Normalized[s, r].url) = Cause(last.url)))

\* another load of the same locator also missed the cache and is suspended
\* on the Fetcher
RacingLoad(url) ==
    \E i \in Slots : futures[i].url = url /\ futures[i].pc \in {"get", "text"}

\* C20: when two loads of L both missed the cache and interleave, each calls
\* the Fetcher and each, on completing, stores its record: once the first
\* has completed the cache holds the record it returned.
C20_RacingLoadsPopulate ==
    (/\ cache_provider = "Some"
     /\ MissedLoad(last)
     /\ last.ok
     /\ last.url \in net_gets
     /\ RacingLoad(last.url)) =>
        (last.url \in DOMAIN cache /\ SamePayload(cache[last.url], last.source))

\* C12: a record returned by get, or by a load that hit the cache, is an
\* independent copy: the caller consuming its payload changes neither the
\* stored entry nor what another get of the same locator returns.
C12_IndependentCopies ==
    /\ \A l \in DOMAIN cache :
          /\ cache[l].code # "consumed"
          /\ cache[l].buf # last.source.buf
    /\ (last.hit /\ last.source.code # "consumed") =>
          SamePayload(last.source, cache[last.url])

\* the caller consumed the record a cache hit returned and the stored entry
\* still holds its payload
C12_Witness ==
    /\ last.hit
    /\ last.source.code = "consumed"
    /\ last.url \in DOMAIN cache
    /\ cache[last.url].code = "js"

\* the load future in slot i is suspended on the Fetcher's I/O
Suspended(i) == futures[i].pc \in {"get", "text"}

ResolveCalled == nops' = nops + 1 /\ last'.op = "resolve"

\* C22: a call of resolve is one synchronous step that touches only the
\* whitelist: it calls neither the Fetcher nor the Transpiler, starts and
\* resumes no future, and leaves the cache unchanged, whatever its input
\* and outcome.
C22_ResolveTouchesOnlyWhitelist ==
    [][ResolveCalled =>
         /\ cache' = cache
         /\ fs_reads' = fs_reads
         /\ net_gets' = net_gets
         /\ futures' = futures
         /\ ~last'.fetched
         /\ ~last'.transpiled
         /\ <<config, poisoned>>' = <<config, poisoned>>]_vars

\* a resolve was denied while a load was in flight and a record was cached:
\* nothing was fetched for the locator it named
C22_Witness ==
    /\ ResolvedTo(last)
    /\ ~last.ok
    /\ cache # <<>>
    /\ \E i \in Slots : futures[i] # Idle
    /\ last.url \notin fs_reads \cup net_gets

\* what get(l) returns in this state agrees with the history of sets: none
\* if set(l, _) was never called, else the record of the latest set(l, _)
GetAgrees(l) ==
    IF l \in DOMAIN written
    THEN /\ CacheLookup(cache, l).some
         /\ SamePayload(CacheLookup(cache, l).value, written[l])
    ELSE ~CacheLookup(cache, l).some

FileLoad(o) == o.op \in {"load", "load_done"} /\ Scheme(o.url) = "file"

\* C24: load neither reads nor writes the whitelist: a load of a file
\* locator is never refused for want of a whitelist entry, so when it
\* misses the cache it reaches the filesystem Fetcher whether or not the
\* locator is whitelisted and whether or not fs import is enabled, and
\* only resolve and whitelist_add ever change the whitelist.
C24_LoadIgnoresWhitelist ==
    /\ [](FileLoad(last) =>
             /\ last.op = "load" => last.ok
             /\ (last.op = "load_done" /\ ~last.hit) =>
                    (last.fetched /\ last.url \in fs_reads))
    /\ [][fs_whlist' # fs_whlist =>
             (nops' = nops + 1 /\ last'.op \in {"resolve", "whitelist_add"})]_vars

\* with fs import disabled, load of a file locator that is not whitelisted
\* read the file and returned its module
C24_Witness ==
    /\ ~fs_import
    /\ last.op = "load_done"
    /\ Scheme(last.url) = "file"
    /\ last.url \notin fs_whlist
    /\ last.ok
    /\ last.fetched
    /\ last.url \in fs_reads
====
